---- MODULE Spec2Model ----
(***************************************************************************)
(* The ODE samplers of solvers.py as one state machine: a call of one of   *)
(* the eight samplers, its precondition checks, its sampling loop (slope   *)
(* evaluation, update, history-buffer update) and its return.              *)
(*                                                                         *)
(* Tensors are modelled by exact rationals [n |-> numerator, d |->         *)
(* denominator], d > 0 and gcd(n, d) = 1.  The value with d = 0 stands for *)
(* a tensor whose value the file does not determine (the result of         *)
(* dpm_pp_update / unipc_update of solver_utils, or an irrational).        *)
(***************************************************************************)
EXTENDS Integers, Sequences, FiniteSets, TLC

\* ------------------------------------------------------------------ bounds

\* Largest number of integration steps of a run (len(t_steps) - 1).
MaxSteps == 5

\* Largest number of integration steps of a run on the "point" denoiser, whose
\* states are fractions that grow with every step.
MaxStepsPoint == 4

\* max_order arguments tried are 0 .. MaxOrderTried (0 and those above 4 or 3
\* are rejected).
MaxOrderTried == 5

\* --------------------------------------------------- tensor arithmetic

Abs(k) == IF k < 0 THEN -k ELSE k

RECURSIVE GCD(_, _)
GCD(a, b) == IF b = 0 THEN a ELSE GCD(b, a % b)

Unknown == [n |-> 0, d |-> 0]

IsNum(a) == a.d # 0

Q(num, den) ==
    IF den = 0 THEN Unknown
    ELSE LET s == IF den < 0 THEN -1 ELSE 1
             g == GCD(Abs(num), Abs(den))
         IN  [n |-> (s * num) \div g, d |-> (s * den) \div g]

Num(k) == [n |-> k, d |-> 1]

\* Sums over the least common denominator and products with the cross factors
\* cancelled first, so that intermediate integers stay small.
Add(a, b) ==
    IF IsNum(a) /\ IsNum(b)
    THEN LET g == GCD(a.d, b.d)
         IN  Q(a.n * (b.d \div g) + b.n * (a.d \div g), (a.d \div g) * b.d)
    ELSE Unknown

Sub(a, b) == Add(a, [n |-> -b.n, d |-> b.d])

Mul(a, b) ==
    IF IsNum(a) /\ IsNum(b)
    THEN LET g1 == GCD(Abs(a.n), b.d)
             g2 == GCD(Abs(b.n), a.d)
         IN  Q((a.n \div g1) * (b.n \div g2), (a.d \div g2) * (b.d \div g1))
    ELSE Unknown

Div(a, b) ==
    IF IsNum(a) /\ IsNum(b) /\ b.n # 0
    THEN Mul(a, IF b.n < 0 THEN [n |-> -b.d, d |-> -b.n] ELSE [n |-> b.d, d |-> b.n])
    ELSE Unknown

Neg(a) == Sub(Num(0), a)

\* Integer square root of k >= 0 by bisection: the largest s with s * s <= k.
RECURSIVE ISqrtIn(_, _, _)
ISqrtIn(k, lo, hi) ==
    IF lo >= hi THEN lo
    ELSE LET mid == (lo + hi + 1) \div 2
         IN  IF mid * mid <= k THEN ISqrtIn(k, mid, hi) ELSE ISqrtIn(k, lo, mid - 1)

ISqrt(k) == ISqrtIn(k, 0, IF k < 46340 THEN k ELSE 46340)

\* a.sqrt(): exact when a is the square of a rational, undetermined otherwise.
Sqrt(a) ==
    IF ~IsNum(a) \/ a.n < 0 THEN Unknown
    ELSE LET sn == ISqrt(a.n)
             sd == ISqrt(a.d)
         IN  IF sn * sn = a.n /\ sd * sd = a.d THEN Q(sn, sd) ELSE Unknown

\* a ** e for the exponents the samplers use here: e in {-1, 0, 1/2, 1, 2}.
Pow(a, e) ==
    CASE e = Num(0)  -> Num(1)
      [] e = Num(1)  -> a
      [] e = Num(2)  -> Mul(a, a)
      [] e = Num(-1) -> Div(Num(1), a)
      [] e = Q(1, 2) -> Sqrt(a)
      [] OTHER       -> Unknown

Min(a, b) == IF a < b THEN a ELSE b

\* Python's lst[-j] on a list of length Len(lst): index Len(lst) - j + 1 here.
FromEnd(lst, j) == lst[Len(lst) - j + 1]

\* lst[-k:]
LastK(lst, k) == IF Len(lst) <= k THEN lst ELSE SubSeq(lst, Len(lst) - k + 1, Len(lst))

\* ------------------------------------------------------ the call's arguments

Methods == {"euler", "heun", "dpm_2", "ipndm", "ipndm_v", "deis", "dpm_pp", "unipc"}

SlopeHistory == {"ipndm", "ipndm_v", "deis"}

DataHistory == {"dpm_pp", "unipc"}

SingleStep == {"euler", "heun", "dpm_2"}

\* The denoisers tried: "linear" has the constant slope 1 (denoised = x - t),
\* "point" is the exact denoiser of a one-point data set at 0 (slope x / t),
\* "quad" has the slope t (denoised = x - t * t).
Nets == {"linear", "point", "quad"}

ScheduleTypes == {"uniform", "poly", "geom"}

VARIABLES method, net, num_steps, schedule_type, afs, denoise_to_zero,
          return_inters, max_order, coeff_list, lower_order_final, predict_x0, r

args == <<method, net, num_steps, schedule_type, afs, denoise_to_zero,
          return_inters, max_order, coeff_list, lower_order_final, predict_x0, r>>

VARIABLES pc, t_steps, i, x_cur, x_next, d_cur, order, use_corrector, model_out,
          buffer_model, buffer_t, inters, nfe, ret

vars == <<args, pc, t_steps, i, x_cur, x_next, d_cur, order, use_corrector, model_out,
          buffer_model, buffer_t, inters, nfe, ret>>

\* The initial noise `latents` (one component).
latents == Num(1)

\* ---------------------------------------------------------- collaborators

\* get_schedule: num_steps strictly decreasing positive noise levels from
\* sigma_max = 12/5 down (1 + sigma_max ** 2 is the square of 13/5), in fifths
\* for "uniform" and "poly"; "geom" has the ratio 1/4, so that the geometric
\* mean of two consecutive levels is rational.
UniformLevels == [k \in 1..12 |-> Q(13 - k, 5)]

PolyLevels == <<Q(12, 5), Q(9, 5), Q(7, 5), Q(5, 5), Q(4, 5), Q(3, 5), Q(2, 5), Q(1, 5)>>

GeomLevels == <<Q(12, 5), Q(3, 5), Q(3, 20), Q(3, 80)>>

Levels(type) ==
    CASE type = "uniform" -> UniformLevels
      [] type = "poly"    -> PolyLevels
      [] type = "geom"    -> GeomLevels

get_schedule(n, type) == SubSeq(Levels(type), 1, n)

\* net(x, t): the denoised estimate.
get_denoised(nt, x, t) ==
    CASE nt = "linear" -> Sub(x, t)
      [] nt = "point"  -> IF IsNum(x) THEN Num(0) ELSE Unknown
      [] nt = "quad"   -> Sub(x, Mul(t, t))

\* dynamic_thresholding_fn of solver_utils: the identity by default.
dynamic_thresholding_fn(x0) == x0

\* dpm_pp_update of solver_utils: the file does not determine its value.
dpm_pp_update(x, bm, bt, t_next, ord, px0) == Unknown

\* unipc_update of solver_utils: returns (x_next, model_out); model_out is the
\* model output at the predicted point when the corrector runs, None otherwise.
NoEntry == [at |-> -1, val |-> Unknown]

unipc_update(x, bm, bt, t_next, ord, corr, k) ==
    [x_next |-> Unknown,
     model_out |-> IF corr THEN [at |-> k + 1, val |-> Unknown] ELSE NoEntry,
     evals |-> IF corr THEN 1 ELSE 0]

\* Classical Adams-Bashforth weights times the step, as a DEIS table row.
AB(ord) ==
    CASE ord = 1 -> <<Num(1)>>
      [] ord = 2 -> <<Q(3, 2), Q(-1, 2)>>
      [] ord = 3 -> <<Q(23, 12), Q(-16, 12), Q(5, 12)>>
      [] ord = 4 -> <<Q(55, 24), Q(-59, 24), Q(37, 24), Q(-9, 24)>>
      [] OTHER   -> <<>>

\* A caller's coefficient table for deis: row k (step k - 1) has
\* min(max_order, k) scalars.
CoeffTable(n, type, mo) ==
    LET ts == get_schedule(n, type)
    IN  [k \in 1..(n - 1) |->
            LET ord == Min(mo, k)
            IN  [j \in 1..(IF ord \in 1..4 THEN ord ELSE 0) |->
                    Mul(Sub(ts[k + 1], ts[k]), AB(ord)[j])]]

NoCoeff == [is_none |-> TRUE, rows |-> <<>>]

\* The schedules a caller's table may have been computed for: the table is an
\* argument of its own, not tied to the schedule of the run.
CoeffSchedules == {"uniform", "poly"}

\* ------------------------------------------------------------- the call

\* Number of integration steps of the run: len(t_steps) - 1.
N == num_steps - 1

Init ==
    /\ method \in Methods
    /\ net \in Nets
    /\ schedule_type \in (IF method \in SingleStep THEN ScheduleTypes
                          ELSE ScheduleTypes \ {"geom"})
    /\ num_steps \in 2..Min(IF net = "point" THEN MaxStepsPoint + 1 ELSE MaxSteps + 1,
                            Len(Levels(schedule_type)))
    /\ afs \in BOOLEAN
    /\ denoise_to_zero \in BOOLEAN
    /\ return_inters \in BOOLEAN
    /\ max_order \in (IF method \in SingleStep THEN {0} ELSE 0..MaxOrderTried)
    /\ coeff_list \in (IF method = "deis"
                       THEN {NoCoeff} \cup
                            {[is_none |-> FALSE, rows |-> CoeffTable(num_steps, ty, max_order)] :
                                 ty \in CoeffSchedules}
                       ELSE {NoCoeff})
    /\ lower_order_final \in (IF method \in DataHistory THEN BOOLEAN ELSE {FALSE})
    /\ predict_x0 \in (IF method \in DataHistory THEN BOOLEAN ELSE {FALSE})
    /\ r \in (IF method = "dpm_2"
              THEN (IF schedule_type = "geom" THEN {Q(1, 2), Num(1), Num(2)} ELSE {Num(1), Num(2)})
              ELSE {Q(1, 2)})
    /\ pc = "call"
    /\ t_steps = <<>>
    /\ i = 0
    /\ x_cur = Unknown
    /\ x_next = Unknown
    /\ d_cur = Unknown
    /\ order = 0
    /\ use_corrector = FALSE
    /\ model_out = NoEntry
    /\ buffer_model = <<>>
    /\ buffer_t = <<>>
    /\ inters = <<>>
    /\ nfe = 0
    /\ ret = <<>>

\* Mutant: every multistep sampler checks the range 1..4 and nothing else.
AssertsHoldCopied(m, mo, cl) == m \in SingleStep \/ (mo >= 1 /\ mo <= 4)

\* The asserts at the head of the multistep samplers.
AssertsHold(m, mo, cl) ==
    CASE m \in {"ipndm", "ipndm_v"} -> mo >= 1 /\ mo <= 4
      [] m = "deis"                 -> (mo >= 1 /\ mo <= 4) /\ ~cl.is_none
      [] m = "dpm_pp"               -> mo >= 1 /\ mo <= 3
      [] m = "unipc"                -> mo > 0 /\ mo < 4
      [] OTHER                      -> TRUE

\* The analytical first step's slope: x / sqrt(1 + t ** 2).
AfsSlope(x, t) == Div(x, Sqrt(Add(Num(1), Pow(t, Num(2)))))

\* d = (x - denoised) / t
Slope(x, denoised, t) == Div(Sub(x, denoised), t)

\* An assert fails: the call raises before anything else is done.
AssertFail ==
    /\ pc = "call"
    /\ ~AssertsHold(method, max_order, coeff_list)
    /\ pc' = "assert_failed"
    /\ UNCHANGED <<args, t_steps, i, x_cur, x_next, d_cur, order, use_corrector, model_out,
                   buffer_model, buffer_t, inters, nfe, ret>>

\* The asserts pass: schedule, scaled initial state, trajectory and empty
\* buffers; unipc also evaluates the model at t_steps[0] before its loop.
Enter ==
    /\ pc = "call"
    /\ AssertsHold(method, max_order, coeff_list)
    /\ LET ts == get_schedule(num_steps, schedule_type)
           x0 == Mul(latents, ts[1])
           d0 == IF afs THEN AfsSlope(x0, ts[1])
                 ELSE Slope(x0, get_denoised(net, x0, ts[1]), ts[1])
           den0 == IF afs THEN Sub(x0, Mul(ts[1], d0)) ELSE get_denoised(net, x0, ts[1])
       IN  /\ t_steps' = ts
           /\ x_next' = x0
           /\ inters' = <<x0>>
           /\ IF method = "unipc"
              THEN /\ buffer_model' = <<[at |-> 0,
                                         val |-> IF predict_x0 THEN dynamic_thresholding_fn(den0)
                                                 ELSE d0]>>
                   /\ buffer_t' = <<ts[1]>>
                   /\ nfe' = IF afs THEN 0 ELSE 1
                   /\ pc' = "update"
              ELSE /\ buffer_model' = <<>>
                   /\ buffer_t' = <<>>
                   /\ nfe' = 0
                   /\ pc' = "slope"
    /\ UNCHANGED <<args, i, x_cur, d_cur, order, use_corrector, model_out, ret>>

\* Mutant: the analytical slope is used at every step.
UseAfsEveryStep(m, a, k, bm) == a

\* use_afs of the step: i == 0 in most samplers, an empty buffer in ipndm_v
\* and deis.
UseAfs(m, a, k, bm) ==
    IF m \in {"ipndm_v", "deis"} THEN a /\ Len(bm) = 0 ELSE a /\ k = 0

\* Mutant: no sampler pushes at the head of its step.
PushesBeforeUpdateNever(m) == FALSE

\* dpm_pp appends the step's estimate and noise level right after computing
\* them, before it calls its update function.
PushesBeforeUpdate(m) == m = "dpm_pp"

\* Head of a loop iteration: x_cur = x_next and the slope d_cur; dpm_pp also
\* pushes the fresh estimate and its noise level.
EvalSlope ==
    /\ pc = "slope"
    /\ LET t_cur == t_steps[i + 1]
           use_afs == UseAfs(method, afs, i, buffer_model)
           d == IF use_afs THEN AfsSlope(x_next, t_cur)
                ELSE Slope(x_next, get_denoised(net, x_next, t_cur), t_cur)
           denoised == IF use_afs THEN Sub(x_next, Mul(t_cur, d))
                       ELSE get_denoised(net, x_next, t_cur)
       IN  /\ x_cur' = x_next
           /\ d_cur' = d
           /\ nfe' = IF use_afs THEN nfe ELSE nfe + 1
           /\ IF PushesBeforeUpdate(method)
              THEN /\ buffer_model' = Append(buffer_model,
                                       [at |-> i,
                                        val |-> IF predict_x0 THEN dynamic_thresholding_fn(denoised)
                                                ELSE d])
                   /\ buffer_t' = Append(buffer_t, t_cur)
              ELSE UNCHANGED <<buffer_model, buffer_t>>
    /\ pc' = "update"
    /\ UNCHANGED <<args, t_steps, i, x_next, order, use_corrector, model_out, inters, ret>>

\* ------------------------------------------------------- single-step updates

\* Mutant: the step is taken over t_next instead of t_next - t_cur.
EulerUpdateNoCur(x, t_cur, t_next, d) == Add(x, Mul(t_next, d))

\* x_cur + (t_next - t_cur) * d
EulerUpdate(x, t_cur, t_next, d) == Add(x, Mul(Sub(t_next, t_cur), d))

\* Mutant: the trajectory is overwritten instead of extended.
IntersAppendReplace(tr, x, on) == IF on THEN <<x>> ELSE tr

\* inters.append(x) under return_inters
IntersAppend(tr, x, on) == IF on THEN Append(tr, x) ELSE tr

\* Where the loop goes after iteration k: the next iteration or the exit.
AfterStep(k, first) == IF k + 1 = N THEN "finish" ELSE first

euler_step ==
    /\ pc = "update" /\ method = "euler"
    /\ LET t_cur == t_steps[i + 1]
           t_next == t_steps[i + 2]
           xn == EulerUpdate(x_cur, t_cur, t_next, d_cur)
       IN  /\ x_next' = xn
           /\ inters' = IntersAppend(inters, xn, return_inters)
    /\ i' = i + 1
    /\ pc' = AfterStep(i, "slope")
    /\ UNCHANGED <<args, t_steps, x_cur, d_cur, order, use_corrector, model_out,
                   buffer_model, buffer_t, nfe, ret>>

\* x_cur + (t_next - t_cur) * (0.5 * d_cur + 0.5 * d_prime)
HeunCorrect(x, t_cur, t_next, d, d_prime) ==
    Add(x, Mul(Sub(t_next, t_cur), Add(Mul(Q(1, 2), d), Mul(Q(1, 2), d_prime))))

heun_step ==
    /\ pc = "update" /\ method = "heun"
    /\ LET t_cur == t_steps[i + 1]
           t_next == t_steps[i + 2]
           xe == EulerUpdate(x_cur, t_cur, t_next, d_cur)
           d_prime == Slope(xe, get_denoised(net, xe, t_next), t_next)
           xn == HeunCorrect(x_cur, t_cur, t_next, d_cur, d_prime)
       IN  /\ x_next' = xn
           /\ inters' = IntersAppend(inters, xn, return_inters)
    /\ nfe' = nfe + 1
    /\ i' = i + 1
    /\ pc' = AfterStep(i, "slope")
    /\ UNCHANGED <<args, t_steps, x_cur, d_cur, order, use_corrector, model_out,
                   buffer_model, buffer_t, ret>>

\* t_mid = (t_next ** r) * (t_cur ** (1 - r)); for r = 1/2 the product of the
\* two square roots is the square root of the product, the geometric mean.
TMid(t_cur, t_next, rr) ==
    IF rr = Q(1, 2) THEN Sqrt(Mul(t_next, t_cur))
    ELSE Mul(Pow(t_next, rr), Pow(t_cur, Sub(Num(1), rr)))

\* x_cur + (t_next - t_cur) * ((1 / (2*r)) * d_prime + (1 - 1 / (2*r)) * d_cur)
Dpm2Correct(x, t_cur, t_next, d, d_prime, rr) ==
    LET w == Div(Num(1), Mul(Num(2), rr))
    IN  Add(x, Mul(Sub(t_next, t_cur), Add(Mul(w, d_prime), Mul(Sub(Num(1), w), d))))

dpm_2_step ==
    /\ pc = "update" /\ method = "dpm_2"
    /\ LET t_cur == t_steps[i + 1]
           t_next == t_steps[i + 2]
           t_mid == TMid(t_cur, t_next, r)
           xm == EulerUpdate(x_cur, t_cur, t_mid, d_cur)
           d_prime == Slope(xm, get_denoised(net, xm, t_mid), t_mid)
           xn == Dpm2Correct(x_cur, t_cur, t_next, d_cur, d_prime, r)
       IN  /\ x_next' = xn
           /\ inters' = IntersAppend(inters, xn, return_inters)
    /\ nfe' = nfe + 1
    /\ i' = i + 1
    /\ pc' = AfterStep(i, "slope")
    /\ UNCHANGED <<args, t_steps, x_cur, d_cur, order, use_corrector, model_out,
                   buffer_model, buffer_t, ret>>

\* ------------------------------------------------- slope-history updates

\* Mutants: the order lags the step index by one; the order runs one ahead.
OrderBehind(mo, k) == Min(mo, k)

OrderAhead(mo, k) == Min(mo, k + 2)

\* order = min(max_order, i+1)
Order(mo, k) == Min(mo, k + 1)

\* coeffs[1] * d + coeffs[2] * buffer[-1] + ... + coeffs[n] * buffer[-(n-1)]
RECURSIVE WeightedSum(_, _, _, _)
WeightedSum(coeffs, d, bm, j) ==
    IF j > Len(coeffs) THEN Num(0)
    ELSE Add(Mul(coeffs[j], IF j = 1 THEN d ELSE FromEnd(bm, j - 1).val),
             WeightedSum(coeffs, d, bm, j + 1))

\* Mutant: the division applies to the last term only, as in
\* 3 * d_cur - buffer_model[-1] / 2.
IpndmCoeffsLastDivided(ord) ==
    CASE ord = 2 -> <<Num(3), Q(-1, 2)>>
      [] ord = 3 -> <<Num(23), Num(-16), Q(5, 12)>>
      [] ord = 4 -> <<Num(55), Num(-59), Num(37), Q(-9, 24)>>
      [] OTHER   -> <<Num(1)>>

\* (3 * d_cur - buffer_model[-1]) / 2 and its siblings, as weights.
IpndmCoeffs(ord) ==
    CASE ord = 2 -> <<Q(3, 2), Q(-1, 2)>>
      [] ord = 3 -> <<Q(23, 12), Q(-16, 12), Q(5, 12)>>
      [] ord = 4 -> <<Q(55, 24), Q(-59, 24), Q(37, 24), Q(-9, 24)>>
      [] OTHER   -> <<Num(1)>>

\* The if/elif chain on order of ipndm_sampler; no branch is taken for an
\* order outside 1..4, which leaves x_next as it was (x_cur).
ipndm_update(x, t_cur, t_next, d, bm, ord) ==
    IF ord \in 1..4
    THEN Add(x, Mul(Sub(t_next, t_cur), WeightedSum(IpndmCoeffs(ord), d, bm, 1)))
    ELSE x

\* The variable-step weights coeff1 .. coeff<order> of ipndm_v_sampler at
\* step k (0-based) of the schedule ts.
IpndmVCoeffs(ord, ts, k) ==
    LET h_n   == Sub(ts[k + 2], ts[k + 1])
        h_n_1 == Sub(ts[k + 1], ts[k])
        h_n_2 == Sub(ts[k], ts[k - 1])
        h_n_3 == Sub(ts[k - 1], ts[k - 2])
        one   == Num(1)
        two   == Num(2)
        three == Num(3)
        six   == Num(6)
        ratio == Div(h_n, h_n_1)
        base1 == Div(Add(two, ratio), two)
        base2 == Div(Neg(ratio), two)
        temp1 == Div(Sub(one,
                         Div(Mul(Div(h_n, Mul(three, Add(h_n, h_n_1))),
                                 Mul(h_n, Add(h_n, h_n_1))),
                             Mul(h_n_1, Add(h_n_1, h_n_2)))),
                     two)
        s2    == Add(h_n, h_n_1)
        s3    == Add(s2, h_n_2)
        temp2 == Div(Mul(Add(Div(Sub(one, Div(h_n, Mul(three, s2))), two),
                             Div(Mul(Sub(one, Div(h_n, Mul(two, s2))), h_n),
                                 Mul(six, s3))),
                         Mul(Mul(h_n, s2), s3)),
                     Mul(Mul(h_n_1, Add(h_n_1, h_n_2)), Add(Add(h_n_1, h_n_2), h_n_3)))
        q12   == Div(h_n_1, h_n_2)
        b     == Div(Mul(h_n_1, Add(h_n_1, h_n_2)), Mul(h_n_2, Add(h_n_2, h_n_3)))
    IN  CASE ord = 2 -> <<base1, base2>>
          [] ord = 3 -> <<Add(base1, temp1),
                          Sub(base2, Mul(Add(one, q12), temp1)),
                          Mul(temp1, q12)>>
          [] ord = 4 -> <<Add(Add(base1, temp1), temp2),
                          Sub(Sub(base2, Mul(Add(one, q12), temp1)),
                              Mul(Add(Add(one, q12), b), temp2)),
                          Add(Mul(temp1, q12),
                              Mul(Add(q12, Mul(b, Add(one, Div(h_n_2, h_n_3)))), temp2)),
                          Mul(Mul(Mul(Neg(temp2), b), h_n_1), Div(one, h_n_2))>>
          [] OTHER   -> <<Num(1)>>

ipndm_v_update(x, ts, k, d, bm, ord) ==
    IF ord \in 1..4
    THEN Add(x, Mul(Sub(ts[k + 2], ts[k + 1]), WeightedSum(IpndmVCoeffs(ord, ts, k), d, bm, 1)))
    ELSE x

\* Mutant: every order, 1 included, takes its weights from coeff_list[i].
DeisUpdateTableOnly(x, t_cur, t_next, d, bm, ord, cl, k) ==
    IF ord \in 1..4 THEN Add(x, WeightedSum(cl.rows[k + 1], d, bm, 1)) ELSE x

\* deis: order 1 is the Euler step; order >= 2 unpacks coeff_list[i] and adds
\* the weighted slopes to x_cur (no step-size factor).
deis_update(x, t_cur, t_next, d, bm, ord, cl, k) ==
    CASE ord = 1      -> EulerUpdate(x, t_cur, t_next, d)
      [] ord \in 2..4 -> Add(x, WeightedSum(cl.rows[k + 1], d, bm, 1))
      [] OTHER        -> x

\* Whether the order-ord update finds the ord - 1 history entries it indexes
\* (buffer_model[-1] .. buffer_model[-(ord-1)]); if not, Python raises
\* IndexError.
HistoryReadable(bm, ord) == ord \notin 2..4 \/ Len(bm) >= ord - 1

ipndm_step ==
    /\ pc = "update" /\ method = "ipndm"
    /\ LET ord == Order(max_order, i)
       IN  /\ order' = ord
           /\ IF HistoryReadable(buffer_model, ord)
              THEN LET xn == ipndm_update(x_cur, t_steps[i + 1], t_steps[i + 2], d_cur,
                                          buffer_model, ord)
                   IN  /\ x_next' = xn
                       /\ inters' = IntersAppend(inters, xn, return_inters)
                       /\ pc' = "buffer"
              ELSE /\ pc' = "index_error"
                   /\ UNCHANGED <<x_next, inters>>
    /\ UNCHANGED <<args, t_steps, i, x_cur, d_cur, use_corrector, model_out,
                   buffer_model, buffer_t, nfe, ret>>

ipndm_v_step ==
    /\ pc = "update" /\ method = "ipndm_v"
    /\ LET ord == Order(max_order, i)
       IN  /\ order' = ord
           /\ IF HistoryReadable(buffer_model, ord)
              THEN LET xn == ipndm_v_update(x_cur, t_steps, i, d_cur, buffer_model, ord)
                   IN  /\ x_next' = xn
                       /\ inters' = IntersAppend(inters, xn, return_inters)
                       /\ pc' = "buffer"
              ELSE /\ pc' = "index_error"
                   /\ UNCHANGED <<x_next, inters>>
    /\ UNCHANGED <<args, t_steps, i, x_cur, d_cur, use_corrector, model_out,
                   buffer_model, buffer_t, nfe, ret>>

deis_step ==
    /\ pc = "update" /\ method = "deis"
    /\ LET ord == Order(max_order, i)
       IN  /\ order' = ord
           /\ IF HistoryReadable(buffer_model, ord)
              THEN LET xn == deis_update(x_cur, t_steps[i + 1], t_steps[i + 2], d_cur,
                                         buffer_model, ord, coeff_list, i)
                   IN  /\ x_next' = xn
                       /\ inters' = IntersAppend(inters, xn, return_inters)
                       /\ pc' = "buffer"
              ELSE /\ pc' = "index_error"
                   /\ UNCHANGED <<x_next, inters>>
    /\ UNCHANGED <<args, t_steps, i, x_cur, d_cur, use_corrector, model_out,
                   buffer_model, buffer_t, nfe, ret>>

\* Mutant: a full buffer is not shifted, only its last entry is replaced.
SlopeBufferPushNoShift(bm, mo, e) ==
    IF Len(bm) = mo - 1
    THEN IF Len(bm) = 0
         THEN [ok |-> FALSE, buf |-> bm]
         ELSE [ok |-> TRUE, buf |-> [k \in 1..Len(bm) |-> IF k = Len(bm) THEN e ELSE bm[k]]]
    ELSE [ok |-> TRUE, buf |-> Append(bm, e)]

\* Mutant: the buffer is taken to be full one entry too late.
SlopeBufferPushLate(bm, mo, e) ==
    IF Len(bm) = mo
    THEN [ok |-> TRUE,
          buf |-> [k \in 1..Len(bm) |->
                      IF k = Len(bm) THEN e
                      ELSE IF k <= mo - 2 THEN bm[k + 1] ELSE bm[k]]]
    ELSE [ok |-> TRUE, buf |-> Append(bm, e)]

\* The buffer update of the slope-history samplers:
\*     if len(buffer_model) == max_order - 1:
\*         for k in range(max_order - 2): buffer_model[k] = buffer_model[k+1]
\*         buffer_model[-1] = d_cur
\*     else: buffer_model.append(d_cur)
\* ok is FALSE when buffer_model[-1] = d_cur is an assignment into an empty
\* list (IndexError).
SlopeBufferPush(bm, mo, e) ==
    IF Len(bm) = mo - 1
    THEN IF Len(bm) = 0
         THEN [ok |-> FALSE, buf |-> bm]
         ELSE [ok |-> TRUE,
               buf |-> [k \in 1..Len(bm) |->
                           IF k = Len(bm) THEN e
                           ELSE IF k <= mo - 2 THEN bm[k + 1] ELSE bm[k]]]
    ELSE [ok |-> TRUE, buf |-> Append(bm, e)]

slope_buffer_update ==
    /\ pc = "buffer" /\ method \in SlopeHistory
    /\ LET res == SlopeBufferPush(buffer_model, max_order, [at |-> i, val |-> d_cur])
       IN  IF res.ok
           THEN /\ buffer_model' = res.buf
                /\ i' = i + 1
                /\ pc' = AfterStep(i, "slope")
           ELSE /\ pc' = "index_error"
                /\ UNCHANGED <<buffer_model, i>>
    /\ UNCHANGED <<args, t_steps, x_cur, x_next, d_cur, order, use_corrector, model_out,
                   buffer_t, inters, nfe, ret>>

\* ------------------------------------------------------ data-history samplers

\* Mutant: lower_order_final is ignored.
DpmPpOrderNoRampDown(mo, k, n, lof) == Min(mo, k + 1)

\* dpm_pp:  order = i + 1 if i + 1 < max_order else min(max_order, num_steps - (i + 1))
\*          under lower_order_final, min(max_order, i + 1) otherwise.
DpmPpOrder(mo, k, n, lof) ==
    IF lof THEN (IF k + 1 < mo THEN k + 1 ELSE Min(mo, n - (k + 1)))
    ELSE Min(mo, k + 1)

dpm_pp_step ==
    /\ pc = "update" /\ method = "dpm_pp"
    /\ LET ord == DpmPpOrder(max_order, i, num_steps, lower_order_final)
           xn == dpm_pp_update(x_cur, buffer_model, buffer_t, t_steps[i + 2], ord, predict_x0)
       IN  /\ order' = ord
           /\ x_next' = xn
           /\ inters' = IntersAppend(inters, xn, return_inters)
    /\ pc' = "buffer"
    /\ UNCHANGED <<args, t_steps, i, x_cur, d_cur, use_corrector, model_out,
                   buffer_model, buffer_t, nfe, ret>>

\* Mutant: the buffer is never truncated.
DpmPpTruncateNone(bm) == bm

\* if len(buffer_model) >= 3: keep buffer_model[-3:], else keep it all.
DpmPpTruncate(bm) == IF Len(bm) >= 3 THEN LastK(bm, 3) ELSE bm

dpm_pp_truncate ==
    /\ pc = "buffer" /\ method = "dpm_pp"
    /\ buffer_model' = DpmPpTruncate(buffer_model)
    /\ buffer_t' = DpmPpTruncate(buffer_t)
    /\ i' = i + 1
    /\ pc' = AfterStep(i, "slope")
    /\ UNCHANGED <<args, t_steps, x_cur, x_next, d_cur, order, use_corrector, model_out,
                   inters, nfe, ret>>

\* Mutant: the ramp-down counts the steps left after the current one.
UnipcOrderPastEnd(mo, k, n, lof) ==
    IF k + 1 < mo THEN k + 1
    ELSE IF lof THEN Min(mo, n - k - 2) ELSE mo

\* unipc: the ramp-up branch (i + 1 < max_order) or the steady branch.
UnipcOrder(mo, k, n, lof) ==
    IF k + 1 < mo THEN k + 1
    ELSE IF lof THEN Min(mo, n - k - 1) ELSE mo

UnipcUseCorrector(mo, k, n) ==
    IF k + 1 < mo THEN TRUE
    ELSE IF k = n - 2 THEN FALSE ELSE TRUE

unipc_step ==
    /\ pc = "update" /\ method = "unipc"
    /\ LET ord == UnipcOrder(max_order, i, num_steps, lower_order_final)
           corr == UnipcUseCorrector(max_order, i, num_steps)
           res == unipc_update(x_next, buffer_model, buffer_t, t_steps[i + 2], ord, corr, i)
       IN  /\ x_cur' = x_next
           /\ order' = ord
           /\ use_corrector' = corr
           /\ x_next' = res.x_next
           /\ model_out' = res.model_out
           /\ nfe' = nfe + res.evals
    /\ pc' = "buffer"
    /\ UNCHANGED <<args, t_steps, i, d_cur, buffer_model, buffer_t, inters, ret>>

\* for k in range(cnt): lst[k] = lst[k + 1]
ShiftLeft(lst, cnt) == [j \in 1..Len(lst) |-> IF j <= cnt THEN lst[j + 1] ELSE lst[j]]

\* lst[-1] = e
SetLast(lst, e) == [j \in 1..Len(lst) |-> IF j = Len(lst) THEN e ELSE lst[j]]

\* The buffer update of unipc: append while ramping up; afterwards shift by
\* one, store t_next and (except on the last step) model_out.
UnipcBufferModel(bm, mo, k, n, mout) ==
    IF k + 1 < mo THEN Append(bm, mout)
    ELSE IF k < n - 2 THEN SetLast(ShiftLeft(bm, mo - 1), mout)
         ELSE ShiftLeft(bm, mo - 1)

UnipcBufferT(bt, mo, k, t_next) ==
    IF k + 1 < mo THEN Append(bt, t_next)
    ELSE SetLast(ShiftLeft(bt, mo - 1), t_next)

\* The shift indexes buffer_model[k + 1] for k < max_order - 1: IndexError if
\* the buffer holds fewer than max_order entries.
unipc_buffer ==
    /\ pc = "buffer" /\ method = "unipc"
    /\ IF i + 1 < max_order \/ Len(buffer_model) >= max_order
       THEN /\ buffer_model' = UnipcBufferModel(buffer_model, max_order, i, num_steps, model_out)
            /\ buffer_t' = UnipcBufferT(buffer_t, max_order, i, t_steps[i + 2])
            /\ inters' = IntersAppend(inters, x_next, return_inters)
            /\ i' = i + 1
            /\ pc' = AfterStep(i, "update")
       ELSE /\ pc' = "index_error"
            /\ UNCHANGED <<buffer_model, buffer_t, inters, i>>
    /\ UNCHANGED <<args, t_steps, x_cur, x_next, d_cur, order, use_corrector, model_out,
                   nfe, ret>>

\* ------------------------------------------------------------- after the loop

\* Mutant: the flag is ignored and the integrated state is kept.
DenoiseToZeroSkipped(nt, x, t, on) == x

\* if denoise_to_zero: x_next = get_denoised(net, x_next, t_next)
DenoiseToZero(nt, x, t, on) == IF on THEN get_denoised(nt, x, t) ELSE x

\* denoise_to_zero, the last trajectory entry and the return value.
Finish ==
    /\ pc = "finish"
    /\ LET t_next == t_steps[Len(t_steps)]
           xn == DenoiseToZero(net, x_next, t_next, denoise_to_zero)
           tr == IF denoise_to_zero THEN IntersAppend(inters, xn, return_inters) ELSE inters
       IN  /\ x_next' = xn
           /\ inters' = tr
           /\ nfe' = IF denoise_to_zero THEN nfe + 1 ELSE nfe
           /\ ret' = IF return_inters THEN tr ELSE <<xn>>
    /\ pc' = "done"
    /\ UNCHANGED <<args, t_steps, i, x_cur, d_cur, order, use_corrector, model_out,
                   buffer_model, buffer_t>>

Next ==
    \/ AssertFail
    \/ Enter
    \/ EvalSlope
    \/ euler_step
    \/ heun_step
    \/ dpm_2_step
    \/ ipndm_step
    \/ ipndm_v_step
    \/ deis_step
    \/ slope_buffer_update
    \/ dpm_pp_step
    \/ dpm_pp_truncate
    \/ unipc_step
    \/ unipc_buffer
    \/ Finish

Spec == Init /\ [][Next]_vars

\* ================================================================= claims

\* The loop is running or has been left: the asserts passed.
Entered == pc \notin {"call", "assert_failed"}

\* The step's update has been computed and its buffer update is still to come.
Updated == pc = "buffer"

\* C1: for every accepted max_order in 1..4 the slope-history samplers (deis
\* with a coefficient table) raise no error inside the sampling loop.
C1_NoErrorInLoop ==
    (method \in SlopeHistory /\ max_order \in 1..4 /\ (method = "deis" => ~coeff_list.is_none))
        => pc # "index_error"

\* C2: in ipndm, ipndm_v and deis the history buffer holds at most
\* max_order - 1 entries at every point of the loop, before and after the
\* step's buffer update.
C2_SlopeBufferBounded ==
    (method \in SlopeHistory /\ Entered) => Len(buffer_model) <= max_order - 1

\* C2 witness: a full buffer of three slopes has been shifted at least once.
C2_Witness ==
    /\ method = "ipndm_v" /\ max_order = 4
    /\ pc = "slope" /\ i = 4
    /\ Len(buffer_model) = 3

MinOfThree(mo, k, n) == Min(mo, Min(k + 1, n - k))

NoLowerFinal == method \in SlopeHistory \/ (method \in DataHistory /\ ~lower_order_final)

\* C5: without lower_order_final the order of step i is i + 1 for
\* i < max_order and max_order for i >= max_order; it starts at 1 and never
\* decreases from one step to the next.
C5_OrderRampUp ==
    [][(NoLowerFinal /\ pc' = "buffer")
          => /\ order' = (IF i' < max_order THEN i' + 1 ELSE max_order)
             /\ order' >= order
             /\ (i' = 0 => order' = 1)]_vars

\* C5 witness: a step past the ramp-up.
C5_Witness ==
    /\ method = "deis" /\ max_order = 2
    /\ Updated /\ i = 3 /\ order = 2

\* C6: a step computed with order k finds the k - 1 history entries it
\* reads, each produced by an earlier step and no two the same; the update
\* never raises an index error.
C6_HistoryAvailable ==
    /\ pc = "index_error" => HistoryReadable(buffer_model, order)
    /\ (Updated /\ method \in SlopeHistory) =>
           /\ Len(buffer_model) >= order - 1
           /\ \A j \in 1..(order - 1) :
                  /\ FromEnd(buffer_model, j).at < i
                  /\ \A l \in 1..(order - 1) :
                         l # j => FromEnd(buffer_model, l).at # FromEnd(buffer_model, j).at
    /\ (Updated /\ method \in DataHistory) =>
           /\ Len(buffer_model) >= order
           /\ \A j \in 2..order :
                  /\ FromEnd(buffer_model, j).at < i
                  /\ FromEnd(buffer_model, j).at >= 0
                  /\ \A l \in 1..order :
                         l # j => FromEnd(buffer_model, l).at # FromEnd(buffer_model, j).at

\* C6 witness: an order-4 step reading three history slopes.
C6_Witness ==
    /\ method = "ipndm" /\ Updated
    /\ order = 4 /\ i = 4 /\ Len(buffer_model) = 3

\* A configuration the samplers document as unsupported.
Malformed ==
    \/ method \in SlopeHistory /\ max_order \notin 1..4
    \/ method \in DataHistory /\ max_order \notin 1..3
    \/ method = "deis" /\ coeff_list.is_none

\* C7: a malformed configuration fails before the loop: no denoiser
\* evaluation, no schedule, no state, no trajectory and no history.
C7_ConfigErrorBeforeLoop ==
    Malformed => /\ pc \in {"call", "assert_failed"}
                 /\ nfe = 0
                 /\ t_steps = <<>>
                 /\ x_next = Unknown
                 /\ inters = <<>>
                 /\ buffer_model = <<>>

\* C7 witness: deis with a supported max_order and no coeff_list has failed.
C7_Witness ==
    /\ method = "deis" /\ max_order \in 1..4 /\ coeff_list.is_none
    /\ pc = "assert_failed"

\* The run's initial state and the analytic solution of the constant-slope
\* ODE at the last noise level.
X0 == Mul(latents, t_steps[1])

Returned == pc = "done" /\ ~denoise_to_zero

\* C8: with the constant slope v = 1 and no analytical first step, euler,
\* heun, dpm_2, ipndm and ipndm_v return x(t_0) - (t_0 - t_N) * v.
C8_ConstantSlopeExact ==
    (Returned /\ net = "linear" /\ ~afs
              /\ method \in {"euler", "heun", "dpm_2", "ipndm", "ipndm_v"})
        => x_next = Sub(X0, Mul(Sub(t_steps[1], t_steps[Len(t_steps)]), Num(1)))

\* The explicit Euler update of the first step, for the run's denoiser.
D0 == Div(Sub(X0, get_denoised(net, X0, t_steps[1])), t_steps[1])

EulerResult == Add(X0, Mul(Sub(t_steps[2], t_steps[1]), D0))

C10_Trajectory ==
    (pc = "done" /\ return_inters) =>
        /\ Len(ret) = N + 1 + (IF denoise_to_zero THEN 1 ELSE 0)
        /\ ret[1] = X0
        /\ ret[Len(ret)] = x_next
        /\ \A k \in 1..Len(ret) : method \notin DataHistory => IsNum(ret[k])

\* C10 witness: a full trajectory with the extra denoise-to-zero entry.
C10_Witness ==
    /\ pc = "done" /\ return_inters /\ denoise_to_zero
    /\ method = "unipc" /\ N = 3 /\ Len(ret) = 5

\* C11: in unipc, for every max_order in 1..3 and every N >= 1, the corrector
\* is requested on every step except the last one and is not requested on the
\* last step (i = N - 1), also when the last step is still in the order
\* ramp-up (N < max_order).
C11_CorrectorExceptLast ==
    (method = "unipc" /\ Updated) => (use_corrector <=> i # N - 1)

\* a ** m for a natural exponent m.
RECURSIVE IntPow(_, _)
IntPow(a, m) == IF m = 0 THEN Num(1) ELSE Mul(a, IntPow(a, m - 1))

\* The slopes t ** m at the noise levels of steps 0 .. k - 1, as the history
\* a run would hold at step k (oldest first), and the integral of t ** m from
\* t_cur to t_next.
MonomialHistory(ts, k, m) == [q \in 1..k |-> [at |-> q - 1, val |-> IntPow(ts[q], m)]]

MonomialIntegral(t_cur, t_next, m) ==
    Div(Sub(IntPow(t_next, m + 1), IntPow(t_cur, m + 1)), Num(m + 1))

\* C12: in ipndm_v at order k in {2, 3}, on any strictly decreasing levels,
\* the weights are those of the variable-step Adams-Bashforth method: applied
\* to a slope that is a polynomial of degree <= k - 1 in the noise level
\* (each monomial t ** m, m < k) the step adds exactly the integral of the
\* slope from t_cur to t_next, and the weights sum to 1 (m = 0).
C12_VariableStepExact ==
    (method = "ipndm_v" /\ Updated /\ order \in {2, 3}) =>
        /\ \A m \in 0..(order - 1) :
               ipndm_v_update(Num(0), t_steps, i, IntPow(t_steps[i + 1], m),
                              MonomialHistory(t_steps, i, m), order)
                   = MonomialIntegral(t_steps[i + 1], t_steps[i + 2], m)
        /\ (net = "quad" /\ ~afs) =>
               x_next = Add(x_cur, MonomialIntegral(t_steps[i + 1], t_steps[i + 2], 1))
        /\ (net = "linear" /\ ~afs) =>
               x_next = Add(x_cur, MonomialIntegral(t_steps[i + 1], t_steps[i + 2], 0))

\* Denoiser evaluations per integration step without the analytical first
\* step: two in heun and dpm_2, one in the other samplers.
EvalsPerStep(m) == IF m \in {"heun", "dpm_2"} THEN 2 ELSE 1

\* C13: a run of N steps makes N denoiser evaluations in euler, ipndm,
\* ipndm_v, deis and dpm_pp and 2N in heun and dpm_2 (plus the one of
\* denoise_to_zero); the analytical first step replaces the evaluation at the
\* head of step 0 and no other, for every max_order, so that from step 0 on
\* the count is lower by exactly one, and the first step of heun and dpm_2
\* still makes its correction evaluation.
C13_Evaluations ==
    (method # "unipc" /\ pc \in {"slope", "update", "buffer", "finish", "done"}) =>
        nfe = EvalsPerStep(method) * i
              + (IF pc \in {"update", "buffer"} THEN 1 ELSE 0)
              - (IF afs /\ (i > 0 \/ pc \in {"update", "buffer"}) THEN 1 ELSE 0)
              + (IF pc = "done" /\ denoise_to_zero THEN 1 ELSE 0)

\* C13 witness: a completed ipndm_v run of four steps with the analytical
\* first step has made three evaluations.
C13_Witness ==
    /\ method = "ipndm_v" /\ afs /\ max_order = 2
    /\ pc = "done" /\ ~denoise_to_zero
    /\ N = 4 /\ i = 4 /\ nfe = 3

\* C14: the loop's exit leads straight to the return. With denoise_to_zero
\* exactly one more evaluation is made, on the last integrated state at the
\* last noise level t_N, and its output is the returned state (the last entry
\* of a returned trajectory); without it no evaluation is made and the last
\* integrated state is returned.
C14_DenoiseToZero ==
    [][pc = "finish" =>
          /\ pc' = "done"
          /\ i = N
          /\ return_inters => inters[Len(inters)] = x_next
          /\ ret'[Len(ret')] = x_next'
          /\ IF denoise_to_zero
             THEN /\ x_next' = get_denoised(net, x_next, t_steps[N + 1])
                  /\ nfe' = nfe + 1
                  /\ return_inters => ret' = Append(inters, x_next')
             ELSE /\ x_next' = x_next
                  /\ nfe' = nfe
                  /\ return_inters => ret' = inters]_vars

\* C14 witness: a returned trajectory whose last entry is the denoised
\* estimate of the entry before it, at the last noise level.
C14_Witness ==
    /\ pc = "done" /\ denoise_to_zero /\ return_inters
    /\ method = "ipndm" /\ net = "quad" /\ N = 3
    /\ Len(ret) = N + 2
    /\ ret[N + 2] = get_denoised(net, ret[N + 1], t_steps[N + 1])
    /\ ret[N + 2] # ret[N + 1]
    /\ x_next = ret[N + 2]

\* A history of three slopes all equal to d.
EqualHistory(d) == [q \in 1..3 |-> [at |-> q - 1, val |-> d]]

\* The weights w integrate the monomial s ** m exactly over one step when the
\* slopes sit at s = 0, -1, -2, ... (most recent first): the defining
\* property of the Adams-Bashforth weights of Len(w) points.
RECURSIVE MomentSum(_, _, _)
MomentSum(w, m, j) ==
    IF j > Len(w) THEN Num(0)
    ELSE Add(Mul(w[j], IntPow(Num(1 - j), m)), MomentSum(w, m, j + 1))

\* C15: in ipndm the weights of order k in 1..4 are the classical
\* Adams-Bashforth coefficients [1], [3,-1]/2, [23,-16,5]/12,
\* [55,-59,37,-9]/24 (most recent first); they sum to exactly 1, so that a
\* step whose history slopes all equal the current slope is the Euler step.
C15_AdamsBashforth ==
    (method = "ipndm" /\ Updated /\ order \in 1..4) =>
        LET w == IpndmCoeffs(order)
        IN  /\ w = AB(order)
            /\ Len(w) = order
            /\ \A m \in 0..(order - 1) : MomentSum(w, m, 1) = Q(1, m + 1)
            /\ WeightedSum(w, Num(1), EqualHistory(Num(1)), 1) = Num(1)
            /\ ipndm_update(x_cur, t_steps[i + 1], t_steps[i + 2], d_cur,
                            EqualHistory(d_cur), order)
                   = EulerUpdate(x_cur, t_steps[i + 1], t_steps[i + 2], d_cur)
            /\ (\A j \in 1..(order - 1) : FromEnd(buffer_model, j).val = d_cur)
                   => x_next = EulerUpdate(x_cur, t_steps[i + 1], t_steps[i + 2], d_cur)

\* C15 witness: an order-4 step of a run on the constant-slope denoiser,
\* whose three history slopes equal the current slope, is the Euler step.
C15_Witness ==
    /\ method = "ipndm" /\ Updated /\ order = 4 /\ i = 3
    /\ net = "linear" /\ ~afs /\ schedule_type = "poly"
    /\ \A j \in 1..3 : FromEnd(buffer_model, j).val = d_cur
    /\ x_next = EulerUpdate(x_cur, t_steps[4], t_steps[5], d_cur)

\* C16: in every multistep sampler, for every accepted max_order, either
\* lower_order_final setting and every N >= 1, the order each step's update
\* is computed with is an integer in 1..max_order: never 0 on the last steps
\* of the ramp-down, never above max_order.
C16_OrderInRange ==
    [][(method \notin SingleStep /\ pc = "update")
          => /\ order' \in 1..max_order
             /\ pc' \in {"buffer", "index_error"}]_vars

\* C16 witness: the last step of a ramp-down from order 3.
C16_Witness ==
    /\ method = "unipc" /\ lower_order_final /\ max_order = 3
    /\ Updated /\ N = 4 /\ i = N - 1 /\ order = 1

\* C17: in ipndm, ipndm_v and deis with max_order >= 2 the buffer update is a
\* FIFO push. From the start of step i to its buffer update the buffer holds
\* exactly the slopes of steps i - m .. i - 1, m = min(i, max_order - 1),
\* oldest first, so that buffer_model[-j] is the slope of step i - j; the
\* update puts the slope of step i last and keeps the others in order, and
\* nothing else changes the buffer.
C17_FifoPush ==
    [][(method \in SlopeHistory /\ max_order >= 2) =>
          /\ pc' \in {"slope", "update", "buffer", "finish", "done"} =>
                 LET m == Min(i', max_order - 1)
                 IN  /\ Len(buffer_model') = m
                     /\ \A j \in 1..m : FromEnd(buffer_model', j).at = i' - j
          /\ pc = "buffer" =>
                 /\ i' = i + 1
                 /\ FromEnd(buffer_model', 1) = [at |-> i, val |-> d_cur]
                 /\ \A j \in 2..Len(buffer_model') :
                        FromEnd(buffer_model', j) = FromEnd(buffer_model, j - 1)
          /\ pc # "buffer" => buffer_model' = buffer_model]_vars

\* C17 witness: a buffer of capacity two that has been shifted twice.
C17_Witness ==
    /\ method = "deis" /\ max_order = 3
    /\ pc = "slope" /\ i = 4
    /\ Len(buffer_model) = 2
    /\ buffer_model[1].at = 2 /\ buffer_model[2].at = 3

\* The step that produced a buffer entry: slope and dpm_pp entries carry the
\* index of their step; a unipc entry carries the index of its noise level,
\* which is evaluated by the step before (the first one before the loop).
ProducedAt(m, e) == IF m = "unipc" THEN e.at - 1 ELSE e.at

\* C18 as claimed: in every history-driven sampler the buffer is unchanged
\* from the start of step i until x_next has been computed, and holds only
\* estimates produced by steps earlier than i.
C18_BufferUntouchedBeforeUpdate ==
    [][(method \notin SingleStep /\ pc \in {"slope", "update"}) =>
          /\ buffer_model' = buffer_model
          /\ buffer_t' = buffer_t
          /\ \A k \in 1..Len(buffer_model') : ProducedAt(method, buffer_model'[k]) < i]_vars

\* C18 as amended: in ipndm, ipndm_v, deis and unipc the buffer is unchanged
\* from the start of step i until x_next has been computed and holds only
\* estimates of earlier steps. dpm_pp appends the estimate and the noise
\* level of step i before its update is called, so the update reads the
\* earlier estimates followed by the one of step i; the update call itself
\* changes nothing, and entries are evicted only after x_next is computed.
C18_BufferMutation ==
    [][/\ (method \in SlopeHistory \cup {"unipc"} /\ pc \in {"slope", "update"}) =>
              /\ buffer_model' = buffer_model
              /\ buffer_t' = buffer_t
              /\ \A k \in 1..Len(buffer_model) : ProducedAt(method, buffer_model[k]) < i
       /\ (method = "dpm_pp" /\ pc = "slope") =>
              /\ \A k \in 1..Len(buffer_model) : ProducedAt(method, buffer_model[k]) < i
              /\ Len(buffer_model') = Len(buffer_model) + 1
              /\ SubSeq(buffer_model', 1, Len(buffer_model)) = buffer_model
              /\ FromEnd(buffer_model', 1).at = i
              /\ buffer_t' = Append(buffer_t, t_steps[i + 1])
       /\ (method = "dpm_pp" /\ pc = "update") =>
              /\ buffer_model' = buffer_model
              /\ buffer_t' = buffer_t
              /\ FromEnd(buffer_model, 1).at = i]_vars

\* C18 witness: dpm_pp is about to call its update at step 2 with the
\* estimate of step 2 already in the buffer.
C18_Witness ==
    /\ method = "dpm_pp" /\ pc = "update" /\ i = 2
    /\ Len(buffer_model) = 3
    /\ FromEnd(buffer_model, 1).at = 2
    /\ FromEnd(buffer_t, 1) = t_steps[3]

\* The weighted sum of the current slope and the history slopes with the
\* weights of row i of the table.
TableIncrement == WeightedSum(coeff_list.rows[i + 1], d_cur, buffer_model, 1)

\* C19 as claimed: at every step of deis, step 0 and the steps of
\* max_order = 1 included, x_next - x_cur is the weighted sum of the current
\* slope and the order - 1 most recent history slopes with the weights of
\* coeff_list[i], a tuple of exactly `order` scalars.
C19_IncrementFromTable ==
    (method = "deis" /\ Updated) =>
        /\ Len(coeff_list.rows[i + 1]) = order
        /\ x_next = Add(x_cur, TableIncrement)

\* C19 as amended: at a step of order >= 2 the increment is the weighted sum
\* with the weights of coeff_list[i], read as exactly `order` scalars, and
\* depends on the schedule through coeff_list only; at a step of order 1
\* (step 0, and max_order = 1) coeff_list[i] is not read and the increment is
\* the Euler step (t_next - t_cur) * d_cur of the run's own schedule.
C19_DeisIncrement ==
    (method = "deis" /\ Updated) =>
        /\ order = 1 =>
               x_next = Add(x_cur, Mul(Sub(t_steps[i + 2], t_steps[i + 1]), d_cur))
        /\ order >= 2 =>
               /\ Len(coeff_list.rows[i + 1]) = order
               /\ x_next = Add(x_cur, TableIncrement)

\* C19 witness: an order-3 step of a run on the uniform schedule with a
\* table computed for another schedule follows the table.
C19_Witness ==
    /\ method = "deis" /\ Updated /\ order = 3 /\ i = 2
    /\ schedule_type = "uniform"
    /\ coeff_list.rows = CoeffTable(num_steps, "poly", max_order)
    /\ coeff_list.rows # CoeffTable(num_steps, "uniform", max_order)
    /\ x_next = Add(x_cur, TableIncrement)
    /\ x_next # ipndm_update(x_cur, t_steps[i + 1], t_steps[i + 2], d_cur, buffer_model, order)

\* The state x and the buffer of sampler m (ipndm or ipndm_v) after k steps
\* on the run's schedule, denoiser, initial state and max_order, computed step
\* by step from the samplers' own slope, order, update and buffer push.
RECURSIVE SamplerState(_, _)
SamplerState(m, k) ==
    IF k = 0 THEN [x |-> X0, buf |-> <<>>]
    ELSE LET s == SamplerState(m, k - 1)
             t_cur == t_steps[k]
             d == IF UseAfs(m, afs, k - 1, s.buf) THEN AfsSlope(s.x, t_cur)
                  ELSE Slope(s.x, get_denoised(net, s.x, t_cur), t_cur)
             ord == Order(max_order, k - 1)
         IN  [x |-> IF m = "ipndm"
                    THEN ipndm_update(s.x, t_cur, t_steps[k + 1], d, s.buf, ord)
                    ELSE ipndm_v_update(s.x, t_steps, k - 1, d, s.buf, ord),
              buf |-> SlopeBufferPush(s.buf, max_order, [at |-> k - 1, val |-> d]).buf]

\* C20: on a uniform schedule, with the same denoiser, initial state and
\* max_order in 1..4, ipndm_v and ipndm compute the same state at every step:
\* a run of either sampler is, after each of its steps, in the state the
\* other reaches after as many steps, and the variable-step weights of orders
\* 2, 3 and 4 are the constant Adams-Bashforth weights.
C20_UniformEquivalence ==
    (method \in {"ipndm", "ipndm_v"} /\ schedule_type = "uniform" /\ max_order \in 1..4
        /\ pc \in {"slope", "buffer", "finish"}) =>
        LET k == IF pc = "buffer" THEN i + 1 ELSE i
        IN  /\ x_next = SamplerState("ipndm", k).x
            /\ x_next = SamplerState("ipndm_v", k).x
            /\ (pc = "buffer" /\ order >= 2) =>
                   IpndmVCoeffs(order, t_steps, i) = IpndmCoeffs(order)

====
